---- MODULE Spec2Model ----
(***************************************************************************)
(* The gokv key-value store contract (storage.go) and its MongoDB client   *)
(* (mongodb/mongodb.go): NewClient, Set, Get, Delete and Close with their  *)
(* context variants on one collection, the JSON codec, and callers that    *)
(* use one client one after another or concurrently.                       *)
(***************************************************************************)
EXTENDS Integers, Sequences, FiniteSets, TLC

\* ------------------------------------------------------------------ bounds
\* the exported field of a value ranges over 0..MaxVal
MaxVal == 1
\* the non-empty keys are "1".."NumKeys"
NumKeys == 2
\* the goroutines that use the client concurrently
NumCallers == 2
\* the Gets in a row on a key that are told apart
MaxReads == 2
\* the calls of Close on one client that are told apart
MaxCloses == 2

VARIABLES
    coll,    \* the MongoDB collection: a set of documents [K, V]
    last,    \* the last call made on the client, with what it returned
    hist,    \* per key, the last mutating call that returned nil
    rt,      \* a codec round trip: value, destination, bytes, result
    pc,      \* per caller, where it stands in its call
    loc,     \* per caller, its call's arguments, locals and result
    reg,     \* per key, what the last applied Set or Delete left
    regBy,   \* per key, the caller whose Set wrote reg and has not returned
    mem,     \* the variables of a caller: a value it sets, destinations
    session, \* the client's mgo session: open or not, and the Close calls
    defaults, \* the package variable DefaultOptions
    made,    \* a call of NewClient: its options, locals and result
    reads    \* per key, the Gets since the last Set or Delete that returned nil

\* what the calls on a client leave alone
env == <<mem, session, defaults, made, reads>>

vars ==
    <<coll, last, hist, rt, pc, loc, reg, regBy, mem, session, defaults, made,
      reads>>

\* ------------------------------------------------------------------ values
\* A Go value is <<type, exported, unexported>>: a struct foo with an
\* exported field Bar and an unexported field (0: zero, 1: set), an int, a
\* value of a type encoding/json cannot represent (a channel), or nil.
Nil == <<"nil", 0, 0>>

FooValues == {<<"foo", b, p>> : b \in 0..MaxVal, p \in 0..1}

IntValues == {<<"int", n, 0>> : n \in 0..MaxVal}

ChanValue == <<"chan", 0, 0>>

\* the values the codec is applied to
CodecValues == FooValues \cup IntValues \cup {ChanValue, Nil}

\* the values callers pass to Set
Values == FooValues \cup {ChanValue, Nil}

\* what the destination of a Get holds before the call: nothing (a nil
\* destination), a new foo, a foo used before, a new int
Dests == {Nil, <<"foo", 0, 0>>, <<"foo", MaxVal, 1>>, <<"int", 0, 0>>}

\* new(foo)
NewFoo == <<"foo", 0, 0>>

TypeOf(v) == v[1]

\* new(T): a pointer to the zero value of v's type
ZeroOf(v) == <<v[1], 0, 0>>

\* the keys callers pass: the empty string and strconv.Itoa(i)
Keys == {""} \cup {ToString(i) : i \in 1..NumKeys}

ValidKeys == Keys \ {""}

\* ------------------------------------------------------------------ errors
NoErr == "nil"

ErrInvalidKey == "invalid key"

ErrInvalidValue == "invalid value"

ErrMarshal == "json: unsupported type"

ErrUnmarshal == "json: cannot unmarshal"

ErrNotFound == "not found"

ErrEngine == "engine error"

\* ---------------------------------------------------------------- contexts
\* context.Background(), a context that was cancelled, a context whose
\* deadline has passed
Background == "background"

Contexts == {Background, "cancelled", "expired"}

\* ------------------------------------------------------------------ codec
\* toJSON with the struct's field left out of the encoding (its zero value)
toJSON_FieldSkipped(v) ==
    CASE TypeOf(v) = "foo" -> [data |-> <<"obj", 0>>, err |-> NoErr]
      [] TypeOf(v) = "int" -> [data |-> <<"num", v[2]>>, err |-> NoErr]
      [] TypeOf(v) = "nil" -> [data |-> <<"null", 0>>, err |-> NoErr]
      [] OTHER -> [data |-> <<"", 0>>, err |-> ErrMarshal]

\* json.Marshal: only the exported fields of a struct are encoded; a channel
\* is an unsupported type; nil encodes as null.  The bytes are <<kind, n>>:
\* <<"obj", b>> is {"Bar":b}, <<"num", n>> is n, <<"null", 0>> is null.
toJSON(v) ==
    CASE TypeOf(v) = "foo" -> [data |-> <<"obj", v[2]>>, err |-> NoErr]
      [] TypeOf(v) = "int" -> [data |-> <<"num", v[2]>>, err |-> NoErr]
      [] TypeOf(v) = "nil" -> [data |-> <<"null", 0>>, err |-> NoErr]
      [] OTHER -> [data |-> <<"", 0>>, err |-> ErrMarshal]

\* json.Unmarshal into the value d the destination points to (Nil: no
\* pointer): an object sets the exported fields of a struct and leaves the
\* unexported ones as they are, a number sets an int, null changes nothing,
\* and bytes of another shape are an error that leaves d as it is.
fromJSON(data, d) ==
    CASE d = Nil -> [out |-> d, err |-> ErrUnmarshal]
      [] data[1] = "null" -> [out |-> d, err |-> NoErr]
      [] data[1] = "obj" /\ TypeOf(d) = "foo" ->
            [out |-> <<"foo", data[2], d[3]>>, err |-> NoErr]
      [] data[1] = "num" /\ TypeOf(d) = "int" ->
            [out |-> <<"int", data[2], 0>>, err |-> NoErr]
      [] OTHER -> [out |-> d, err |-> ErrUnmarshal]

\* c.codec of a client made with the default options (encoding.JSON)
Marshal(v) == toJSON(v)

Unmarshal(data, d) == fromJSON(data, d)

\* -------------------------------------------------------------- validation
CheckKey(k) == IF k = "" THEN ErrInvalidKey ELSE NoErr

CheckKeyAndValue(k, v) ==
    IF CheckKey(k) # NoErr THEN CheckKey(k)
    ELSE IF v = Nil THEN ErrInvalidValue
    ELSE NoErr

\* ------------------------------------------------------------------ engine
\* The mgo collection calls.  fault: the call fails for a reason other than
\* absence (connection loss, timeout, server error); a call that reports
\* such a failure has not changed the collection.
NoItem == [K |-> "", V |-> <<"", 0>>]

HasId(c, id) == \E d \in c : d.K = id

\* UpsertId as an insert that leaves an existing document as it is
UpsertId_NoReplace(c, id, item, fault) ==
    IF fault \/ item.K # id THEN [coll |-> c, err |-> ErrEngine]
    ELSE IF HasId(c, id) THEN [coll |-> c, err |-> NoErr]
    ELSE [coll |-> c \cup {item}, err |-> NoErr]

\* UpsertId as an insert beside an existing document
UpsertId_InsertsDuplicate(c, id, item, fault) ==
    IF fault \/ item.K # id THEN [coll |-> c, err |-> ErrEngine]
    ELSE [coll |-> c \cup {item}, err |-> NoErr]

\* UpsertId with a selector that matches every document
UpsertId_MatchesAll(c, id, item, fault) ==
    IF fault \/ item.K # id THEN [coll |-> c, err |-> ErrEngine]
    ELSE [coll |-> {item}, err |-> NoErr]

\* UpsertId(id, item): the document whose _id is id is replaced by item, or
\* item is inserted when there is none
UpsertId(c, id, item, fault) ==
    IF fault \/ item.K # id THEN [coll |-> c, err |-> ErrEngine]
    ELSE [coll |-> {d \in c : d.K # id} \cup {item}, err |-> NoErr]

\* FindId(id) as a find-and-remove: the document found is taken out
FindIdOne_Removes(c, id, fault) ==
    IF fault THEN [coll |-> c, item |-> NoItem, err |-> ErrEngine]
    ELSE IF HasId(c, id)
    THEN [coll |-> {d \in c : d.K # id},
          item |-> CHOOSE d \in c : d.K = id, err |-> NoErr]
    ELSE [coll |-> c, item |-> NoItem, err |-> ErrNotFound]

\* FindId(id).One(item)
FindIdOne(c, id, fault) ==
    IF fault THEN [coll |-> c, item |-> NoItem, err |-> ErrEngine]
    ELSE IF HasId(c, id)
    THEN [coll |-> c, item |-> CHOOSE d \in c : d.K = id, err |-> NoErr]
    ELSE [coll |-> c, item |-> NoItem, err |-> ErrNotFound]

\* RemoveId with a selector that matches every document
RemoveId_RemovesAll(c, id, fault) ==
    IF fault THEN [coll |-> c, err |-> ErrEngine]
    ELSE IF HasId(c, id) THEN [coll |-> {}, err |-> NoErr]
    ELSE [coll |-> c, err |-> ErrNotFound]

\* RemoveId that reports success and removes nothing
RemoveId_NoOp(c, id, fault) ==
    IF fault THEN [coll |-> c, err |-> ErrEngine]
    ELSE IF HasId(c, id) THEN [coll |-> c, err |-> NoErr]
    ELSE [coll |-> c, err |-> ErrNotFound]

\* RemoveId(id): removes one document whose _id is id
RemoveId(c, id, fault) ==
    IF fault THEN [coll |-> c, err |-> ErrEngine]
    ELSE IF HasId(c, id)
    THEN [coll |-> c \ {CHOOSE d \in c : d.K = id}, err |-> NoErr]
    ELSE [coll |-> c, err |-> ErrNotFound]

\* ------------------------------------------------------------------ client
\* Each method as a function of the collection and its arguments: the
\* collection it leaves, what it returns, and the calls it made (trace).

\* SetWithContext that checks the key only (util.CheckKey)
SetWithContext_KeyOnly(ctx, c, k, v, fault) ==
    LET chk == CheckKey(k)
        m == Marshal(v)
        u == UpsertId(c, k, [K |-> k, V |-> m.data], fault)
    IN  IF chk # NoErr
        THEN [coll |-> c, err |-> chk, trace |-> <<"CheckKey">>]
        ELSE IF m.err # NoErr
        THEN [coll |-> c, err |-> m.err, trace |-> <<"CheckKey", "Marshal">>]
        ELSE [coll |-> u.coll, err |-> u.err,
              trace |-> <<"CheckKey", "Marshal", "UpsertId">>]

\* SetWithContext that validates after it has marshalled and upserted
SetWithContext_ValidatesLast(ctx, c, k, v, fault) ==
    LET chk == CheckKeyAndValue(k, v)
        m == Marshal(v)
        u == UpsertId(c, k, [K |-> k, V |-> m.data], fault)
    IN  IF m.err # NoErr
        THEN [coll |-> c, err |-> m.err, trace |-> <<"Marshal">>]
        ELSE IF u.err # NoErr
        THEN [coll |-> u.coll, err |-> u.err,
              trace |-> <<"Marshal", "UpsertId">>]
        ELSE [coll |-> u.coll, err |-> chk,
              trace |-> <<"Marshal", "UpsertId", "CheckKeyAndValue">>]

\* SetWithContext that builds the item before data holds the marshalled value
SetWithContext_EmptyPayload(ctx, c, k, v, fault) ==
    LET chk == CheckKeyAndValue(k, v)
        m == Marshal(v)
        u == UpsertId(c, k, [K |-> k, V |-> <<"", 0>>], fault)
    IN  IF chk # NoErr
        THEN [coll |-> c, err |-> chk, trace |-> <<"CheckKeyAndValue">>]
        ELSE IF m.err # NoErr
        THEN [coll |-> c, err |-> m.err,
              trace |-> <<"CheckKeyAndValue", "Marshal">>]
        ELSE [coll |-> u.coll, err |-> u.err,
              trace |-> <<"CheckKeyAndValue", "Marshal", "UpsertId">>]

\* SetWithContext that goes on to the upsert when marshalling has failed
SetWithContext_UpsertsAnyway(ctx, c, k, v, fault) ==
    LET chk == CheckKeyAndValue(k, v)
        m == Marshal(v)
        u == UpsertId(c, k, [K |-> k, V |-> m.data], fault)
    IN  IF chk # NoErr
        THEN [coll |-> c, err |-> chk, trace |-> <<"CheckKeyAndValue">>]
        ELSE [coll |-> u.coll, err |-> IF m.err # NoErr THEN m.err ELSE u.err,
              trace |-> <<"CheckKeyAndValue", "Marshal", "UpsertId">>]

\* SetWithContext that returns ctx.Err() when the context is done
SetWithContext_ChecksContext(ctx, c, k, v, fault) ==
    LET chk == CheckKeyAndValue(k, v)
        m == Marshal(v)
        u == UpsertId(c, k, [K |-> k, V |-> m.data], fault)
    IN  IF chk # NoErr
        THEN [coll |-> c, err |-> chk, trace |-> <<"CheckKeyAndValue">>]
        ELSE IF m.err # NoErr
        THEN [coll |-> c, err |-> m.err,
              trace |-> <<"CheckKeyAndValue", "Marshal">>]
        ELSE IF ctx # Background
        THEN [coll |-> c, err |-> "context " \o ctx,
              trace |-> <<"CheckKeyAndValue", "Marshal">>]
        ELSE [coll |-> u.coll, err |-> u.err,
              trace |-> <<"CheckKeyAndValue", "Marshal", "UpsertId">>]

\* the context parameter is the blank identifier: it is not used
SetWithContext(ctx, c, k, v, fault) ==
    LET chk == CheckKeyAndValue(k, v)
        m == Marshal(v)
        u == UpsertId(c, k, [K |-> k, V |-> m.data], fault)
    IN  IF chk # NoErr
        THEN [coll |-> c, err |-> chk, trace |-> <<"CheckKeyAndValue">>]
        ELSE IF m.err # NoErr
        THEN [coll |-> c, err |-> m.err,
              trace |-> <<"CheckKeyAndValue", "Marshal">>]
        ELSE [coll |-> u.coll, err |-> u.err,
              trace |-> <<"CheckKeyAndValue", "Marshal", "UpsertId">>]

\* GetWithContext that returns mgo.ErrNotFound like any other error
GetWithContext_NotFoundIsError(ctx, c, k, d, fault) ==
    LET chk == CheckKeyAndValue(k, d)
        f == FindIdOne(c, k, fault)
        u == Unmarshal(f.item.V, d)
    IN  IF chk # NoErr
        THEN [coll |-> c, found |-> FALSE, err |-> chk, out |-> d,
              trace |-> <<"CheckKeyAndValue">>]
        ELSE IF f.err # NoErr
        THEN [coll |-> f.coll, found |-> FALSE, err |-> f.err, out |-> d,
              trace |-> <<"CheckKeyAndValue", "FindId">>]
        ELSE [coll |-> f.coll, found |-> TRUE, err |-> u.err, out |-> u.out,
              trace |-> <<"CheckKeyAndValue", "FindId", "Unmarshal">>]

\* GetWithContext that clears the destination before it looks the key up
GetWithContext_ClearsDest(ctx, c, k, d, fault) ==
    LET chk == CheckKeyAndValue(k, d)
        f == FindIdOne(c, k, fault)
        u == Unmarshal(f.item.V, ZeroOf(d))
    IN  IF chk # NoErr
        THEN [coll |-> c, found |-> FALSE, err |-> chk, out |-> d,
              trace |-> <<"CheckKeyAndValue">>]
        ELSE IF f.err = ErrNotFound
        THEN [coll |-> f.coll, found |-> FALSE, err |-> NoErr,
              out |-> ZeroOf(d), trace |-> <<"CheckKeyAndValue", "FindId">>]
        ELSE IF f.err # NoErr
        THEN [coll |-> f.coll, found |-> FALSE, err |-> f.err,
              out |-> ZeroOf(d), trace |-> <<"CheckKeyAndValue", "FindId">>]
        ELSE [coll |-> f.coll, found |-> TRUE, err |-> u.err, out |-> u.out,
              trace |-> <<"CheckKeyAndValue", "FindId", "Unmarshal">>]

\* GetWithContext that reports every failed lookup and every failed
\* unmarshalling as "not found"
GetWithContext_ErrorsAsAbsence(ctx, c, k, d, fault) ==
    LET chk == CheckKeyAndValue(k, d)
        f == FindIdOne(c, k, fault)
        u == Unmarshal(f.item.V, d)
    IN  IF chk # NoErr
        THEN [coll |-> c, found |-> FALSE, err |-> chk, out |-> d,
              trace |-> <<"CheckKeyAndValue">>]
        ELSE IF f.err # NoErr
        THEN [coll |-> f.coll, found |-> FALSE, err |-> NoErr, out |-> d,
              trace |-> <<"CheckKeyAndValue", "FindId">>]
        ELSE IF u.err # NoErr
        THEN [coll |-> f.coll, found |-> FALSE, err |-> NoErr, out |-> u.out,
              trace |-> <<"CheckKeyAndValue", "FindId", "Unmarshal">>]
        ELSE [coll |-> f.coll, found |-> TRUE, err |-> NoErr, out |-> u.out,
              trace |-> <<"CheckKeyAndValue", "FindId", "Unmarshal">>]

\* GetWithContext of a store that kept the caller's value itself and not its
\* marshalled form: what is found is what the caller's variable holds now
GetWithContext_ReadsLive(ctx, c, k, d, fault) ==
    LET chk == CheckKeyAndValue(k, d)
        f == FindIdOne(c, k, fault)
        u == Unmarshal(Marshal(mem["v"].val).data, d)
    IN  IF chk # NoErr
        THEN [coll |-> c, found |-> FALSE, err |-> chk, out |-> d,
              trace |-> <<"CheckKeyAndValue">>]
        ELSE IF f.err = ErrNotFound
        THEN [coll |-> f.coll, found |-> FALSE, err |-> NoErr, out |-> d,
              trace |-> <<"CheckKeyAndValue", "FindId">>]
        ELSE IF f.err # NoErr
        THEN [coll |-> f.coll, found |-> FALSE, err |-> f.err, out |-> d,
              trace |-> <<"CheckKeyAndValue", "FindId">>]
        ELSE [coll |-> f.coll, found |-> TRUE, err |-> u.err, out |-> u.out,
              trace |-> <<"CheckKeyAndValue", "FindId", "Unmarshal">>]

\* d: the value the destination pointer v points to before the call
GetWithContext(ctx, c, k, d, fault) ==
    LET chk == CheckKeyAndValue(k, d)
        f == FindIdOne(c, k, fault)
        u == Unmarshal(f.item.V, d)
    IN  IF chk # NoErr
        THEN [coll |-> c, found |-> FALSE, err |-> chk, out |-> d,
              trace |-> <<"CheckKeyAndValue">>]
        ELSE IF f.err = ErrNotFound
        THEN [coll |-> f.coll, found |-> FALSE, err |-> NoErr, out |-> d,
              trace |-> <<"CheckKeyAndValue", "FindId">>]
        ELSE IF f.err # NoErr
        THEN [coll |-> f.coll, found |-> FALSE, err |-> f.err, out |-> d,
              trace |-> <<"CheckKeyAndValue", "FindId">>]
        ELSE [coll |-> f.coll, found |-> TRUE, err |-> u.err, out |-> u.out,
              trace |-> <<"CheckKeyAndValue", "FindId", "Unmarshal">>]

\* DeleteWithContext that returns whatever RemoveId returns
DeleteWithContext_ReportsAbsence(ctx, c, k, fault) ==
    LET chk == CheckKey(k)
        r == RemoveId(c, k, fault)
    IN  IF chk # NoErr
        THEN [coll |-> c, err |-> chk, trace |-> <<"CheckKey">>]
        ELSE [coll |-> r.coll, err |-> r.err,
              trace |-> <<"CheckKey", "RemoveId">>]

DeleteWithContext(ctx, c, k, fault) ==
    LET chk == CheckKey(k)
        r == RemoveId(c, k, fault)
    IN  IF chk # NoErr
        THEN [coll |-> c, err |-> chk, trace |-> <<"CheckKey">>]
        ELSE IF r.err # ErrNotFound
        THEN [coll |-> r.coll, err |-> r.err,
              trace |-> <<"CheckKey", "RemoveId">>]
        ELSE [coll |-> r.coll, err |-> NoErr,
              trace |-> <<"CheckKey", "RemoveId">>]

\* ------------------------------------------------------------ construction
\* Options as a record; "" is the empty string and "nil" the nil codec
DefaultOptions ==
    [ConnectionString |-> "localhost", DatabaseName |-> "gokv",
     CollectionName |-> "item", Codec |-> "JSON"]

\* the options callers pass to NewClient
OptionValues ==
    [ConnectionString : {"", "localhost", "mongo:27017"},
     DatabaseName : {"", "mydb"},
     CollectionName : {"", "things"},
     Codec : {"nil", "JSON", "gob"}]

\* Client{}: no collection, no session, no codec
ZeroClient == [c |-> <<>>, session |-> <<>>, codec |-> "nil"]

\* the defaults put in place of all options as soon as one of them is empty
WithDefaults_AllOrNothing(options, dflt) ==
    IF \/ options.ConnectionString = "" \/ options.DatabaseName = ""
       \/ options.CollectionName = "" \/ options.Codec = "nil"
    THEN dflt ELSE options

\* "Set default values": the parameter options after the four ifs, dflt
\* being the package variable DefaultOptions
WithDefaults(options, dflt) ==
    [ConnectionString |-> IF options.ConnectionString = ""
                          THEN dflt.ConnectionString
                          ELSE options.ConnectionString,
     DatabaseName |-> IF options.DatabaseName = ""
                      THEN dflt.DatabaseName ELSE options.DatabaseName,
     CollectionName |-> IF options.CollectionName = ""
                        THEN dflt.CollectionName ELSE options.CollectionName,
     Codec |-> IF options.Codec = "nil" THEN dflt.Codec ELSE options.Codec]

ErrDial == "no reachable servers"

\* mgo.DialWithTimeout(addr, 2*time.Second): a session on the server at addr,
\* or an error when no server answered in time (ok: a server answers)
DialWithTimeout(addr, ok) ==
    IF ok THEN [session |-> <<addr>>, err |-> NoErr]
    ELSE [session |-> <<>>, err |-> ErrDial]

\* session.DB(db).C(name)
Collection(sess, db, name) == <<sess[1], db, name>>

\* No call of NewClient yet.  given: the options the caller passed; options:
\* the parameter; result, session, err: the locals; dials: the dial attempts
\* made by the call; addr: the address dialled.
NoClient ==
    [pc |-> "idle", given |-> DefaultOptions, options |-> DefaultOptions,
     result |-> ZeroClient, session |-> <<>>, err |-> NoErr, dials |-> 0,
     addr |-> ""]

\* NewClient(options) is called: result := Client{}
NewClientCall(options) ==
    /\ made.pc \in {"idle", "returned"}
    /\ made' = [NoClient EXCEPT !.pc = "called", !.given = options,
                                !.options = options]
    /\ UNCHANGED <<coll, last, hist, rt, pc, loc, reg, regBy, mem, session,
                   defaults, reads>>

\* the four ifs that set default values
NewClientDefaults ==
    /\ made.pc = "called"
    /\ made' = [made EXCEPT !.pc = "defaulted",
                            !.options = WithDefaults(made.options, defaults)]
    /\ UNCHANGED <<coll, last, hist, rt, pc, loc, reg, regBy, mem, session,
                   defaults, reads>>

\* the dial that is made again when it has failed
NewClientDial_Retries(ok) ==
    /\ made.pc = "defaulted"
    /\ made.dials < 3
    /\ LET d == DialWithTimeout(made.options.ConnectionString, ok)
       IN  made' = [made EXCEPT !.pc = IF ok THEN "dialled" ELSE "defaulted",
                                !.session = d.session, !.err = d.err,
                                !.dials = @ + 1,
                                !.addr = made.options.ConnectionString]
    /\ UNCHANGED <<coll, last, hist, rt, pc, loc, reg, regBy, mem, session,
                   defaults, reads>>

\* session, err := mgo.DialWithTimeout(options.ConnectionString, ...)
NewClientDial(ok) ==
    /\ made.pc = "defaulted"
    /\ LET d == DialWithTimeout(made.options.ConnectionString, ok)
       IN  made' = [made EXCEPT !.pc = "dialled", !.session = d.session,
                                !.err = d.err, !.dials = @ + 1,
                                !.addr = made.options.ConnectionString]
    /\ UNCHANGED <<coll, last, hist, rt, pc, loc, reg, regBy, mem, session,
                   defaults, reads>>

\* return result, err when the dial failed; else the three fields of result
\* are set and it is returned with nil
NewClientReturn ==
    /\ made.pc = "dialled"
    /\ made' = IF made.err # NoErr THEN [made EXCEPT !.pc = "returned"]
               ELSE [made EXCEPT
                       !.pc = "returned",
                       !.result = [c |-> Collection(made.session,
                                                    made.options.DatabaseName,
                                                    made.options.CollectionName),
                                   session |-> made.session,
                                   codec |-> made.options.Codec]]
    /\ UNCHANGED <<coll, last, hist, rt, pc, loc, reg, regBy, mem, session,
                   defaults, reads>>

NextNew ==
    \/ \E options \in OptionValues : NewClientCall(options)
    \/ NewClientDefaults
    \/ \E ok \in BOOLEAN : NewClientDial(ok)
    \/ NewClientReturn

\* ------------------------------------------------------- caller's variables
\* v: the value a caller passes to Set; out1, out2: destinations of its Gets
Addrs == {"v", "out1", "out2"}

\* used: "new" until the variable is passed to a Set that returns nil or is
\* filled by a Get, then "passed", and "changed" once the caller has
\* assigned to it after that
NewMem == [a \in Addrs |-> [val |-> NewFoo, used |-> "new"]]

\* ------------------------------------------------------------------- close
\* the session NewClient has dialled; closes counts the calls of Close
OpenSession == [open |-> TRUE, closes |-> 0]

\* session.Close(): the session's sockets are released; on a session that
\* is closed already it does nothing
SessionClose(s) ==
    [open |-> FALSE,
     closes |-> IF s.closes < MaxCloses THEN s.closes + 1 ELSE s.closes]

\* Close that drops the collection it was using
Close_DropsCollection(c, s) ==
    [coll |-> {}, session |-> SessionClose(s), err |-> NoErr]

\* c.Close(): closes the session and returns nil
Close(c, s) == [coll |-> c, session |-> SessionClose(s), err |-> NoErr]

\* ------------------------------------------------------- sequential calls
NoCall ==
    [op |-> "none", ctx |-> Background, k |-> "", arg |-> Nil,
     fault |-> FALSE, found |-> FALSE, err |-> NoErr, out |-> Nil,
     trace |-> <<>>, pre |-> {}]

NoRoundTrip == [step |-> "none", v |-> Nil, d |-> Nil, m |-> toJSON(Nil),
                u |-> fromJSON(<<"null", 0>>, Nil)]

Callers == 1..NumCallers

\* strconv.Itoa(i): the key goroutine i works on
KeyOf(p) == ToString(p)

AllKeys == Keys \cup {KeyOf(p) : p \in Callers}

\* the values goroutines set: foo{} and a foo with both fields set
ConcValues == {<<"foo", 0, 0>>, <<"foo", MaxVal, 1>>}

\* the key concurrent callers contend on
SharedKeys == {KeyOf(1)}

\* A caller between calls.  calls: the calls it has finished; want: the
\* value it has set; expect: the value a Set that had returned left when this
\* Get was called; read: what the key held when the engine call was made.
IdleLoc ==
    [op |-> "none", k |-> "", arg |-> Nil, fault |-> FALSE, found |-> FALSE,
     err |-> NoErr, out |-> Nil, expect |-> <<"any", Nil>>,
     read |-> <<"none", Nil>>, calls |-> 0, want |-> <<"none", Nil>>]

Init ==
    /\ coll = {}
    /\ last = NoCall
    /\ hist = [k \in Keys |-> <<"none", Nil>>]
    /\ rt = NoRoundTrip
    /\ pc = [p \in Callers |-> "idle"]
    /\ loc = [p \in Callers |-> IdleLoc]
    /\ reg = [k \in AllKeys |-> <<"absent", Nil>>]
    /\ regBy = [k \in AllKeys |-> 0]
    /\ mem = NewMem
    /\ session = OpenSession
    /\ defaults = DefaultOptions
    /\ made = NoClient
    /\ reads = [k \in Keys |-> 0]

\* The history of a key after a Set or Delete on it returned err: a call that
\* returned nil becomes the key's last successful mutation (a call that
\* returned an error has left the entry as it was).
Mutated(h, op, k, v, err) ==
    IF err = NoErr THEN [h EXCEPT ![k] = <<op, v>>] ELSE h

\* the engine fails only in a call that reaches it
Faults(reached) == IF reached THEN BOOLEAN ELSE {FALSE}

\* what a call of c.SetWithContext(ctx, k, v) does to the collection, with
\* the record of the call
SetStep(ctx, k, v, fault) ==
    LET r == SetWithContext(ctx, coll, k, v, fault)
    IN  /\ coll' = r.coll
        /\ last' = [op |-> "Set", ctx |-> ctx, k |-> k, arg |-> v,
                    fault |-> fault, found |-> FALSE, err |-> r.err,
                    out |-> v, trace |-> r.trace, pre |-> coll]
        /\ hist' = Mutated(hist, "Set", k, v, r.err)

\* c.SetWithContext(ctx, k, v)
SetCtx(ctx, k, v, fault) ==
    /\ SetStep(ctx, k, v, fault)
    /\ UNCHANGED <<rt, pc, loc, reg, regBy, env>>

\* what a call of c.GetWithContext(ctx, k, &out) does, out holding d before
GetStep(ctx, k, d, fault) ==
    LET r == GetWithContext(ctx, coll, k, d, fault)
    IN  /\ coll' = r.coll
        /\ last' = [op |-> "Get", ctx |-> ctx, k |-> k, arg |-> d,
                    fault |-> fault, found |-> r.found, err |-> r.err,
                    out |-> r.out, trace |-> r.trace, pre |-> coll]
        /\ hist' = hist

\* c.GetWithContext(ctx, k, &out), out holding d before the call
GetCtx(ctx, k, d, fault) ==
    /\ GetStep(ctx, k, d, fault)
    /\ UNCHANGED <<rt, pc, loc, reg, regBy, env>>

\* what a call of c.DeleteWithContext(ctx, k) does
DeleteStep(ctx, k, fault) ==
    LET r == DeleteWithContext(ctx, coll, k, fault)
    IN  /\ coll' = r.coll
        /\ last' = [op |-> "Delete", ctx |-> ctx, k |-> k, arg |-> Nil,
                    fault |-> fault, found |-> FALSE, err |-> r.err,
                    out |-> Nil, trace |-> r.trace, pre |-> coll]
        /\ hist' = Mutated(hist, "Delete", k, Nil, r.err)

\* c.DeleteWithContext(ctx, k)
DeleteCtx(ctx, k, fault) ==
    /\ DeleteStep(ctx, k, fault)
    /\ UNCHANGED <<rt, pc, loc, reg, regBy, env>>

\* c.Set(k, v)
Set(k, v, fault) == SetCtx(Background, k, v, fault)

\* c.Get(k, &out), out holding d before the call
Get(k, d, fault) == GetCtx(Background, k, d, fault)

\* c.Delete(k)
Delete(k, fault) == DeleteCtx(Background, k, fault)

Next ==
    \/ \E k \in Keys, v \in Values :
          \E fault \in Faults(CheckKeyAndValue(k, v) = NoErr
                                /\ Marshal(v).err = NoErr) : Set(k, v, fault)
    \/ \E k \in Keys, d \in Dests :
          \E fault \in Faults(CheckKeyAndValue(k, d) = NoErr) : Get(k, d, fault)
    \/ \E k \in Keys :
          \E fault \in Faults(CheckKey(k) = NoErr) : Delete(k, fault)

Spec == Init /\ [][Next]_vars

\* the values passed to the context variants
ContextValues == {NewFoo, <<"foo", MaxVal, 1>>, ChanValue, Nil}

NextContext ==
    \/ \E ctx \in Contexts, k \in Keys, v \in ContextValues :
          \E fault \in Faults(CheckKeyAndValue(k, v) = NoErr
                                /\ Marshal(v).err = NoErr) :
              SetCtx(ctx, k, v, fault)
    \/ \E ctx \in Contexts, k \in Keys, d \in Dests :
          \E fault \in Faults(CheckKeyAndValue(k, d) = NoErr) :
              GetCtx(ctx, k, d, fault)
    \/ \E ctx \in Contexts, k \in Keys :
          \E fault \in Faults(CheckKey(k) = NoErr) : DeleteCtx(ctx, k, fault)

\* A caller that keeps using its variables.  The value of v is marshalled
\* inside Set, and Get unmarshals the bytes of a document just read into the
\* destination: the collection shares no memory with the caller.

\* c.Set(k, v) with the value the caller's variable v holds
SetFrom(k, fault) ==
    /\ SetStep(Background, k, mem["v"].val, fault)
    /\ mem' = IF last'.err = NoErr THEN [mem EXCEPT !["v"].used = "passed"]
              ELSE mem
    /\ UNCHANGED <<rt, pc, loc, reg, regBy, session, defaults, made, reads>>

\* c.Get(k, &a) with the caller's variable a as destination
GetInto(a, k, fault) ==
    /\ GetStep(Background, k, mem[a].val, fault)
    /\ mem' = [mem EXCEPT ![a] =
                 [val |-> last'.out,
                  used |-> IF last'.found /\ last'.err = NoErr THEN "passed"
                           ELSE @.used]]
    /\ UNCHANGED <<rt, pc, loc, reg, regBy, session, defaults, made, reads>>

\* the caller assigns x to its variable a (no call on the client: last
\* records it as the caller's latest step)
Assign(a, x) ==
    /\ x # mem[a].val
    /\ mem' = [mem EXCEPT ![a] =
                 [val |-> x,
                  used |-> IF @.used = "new" THEN "new" ELSE "changed"]]
    /\ last' = [NoCall EXCEPT !.op = "Assign", !.arg = x, !.pre = coll]
    /\ UNCHANGED <<coll, hist, rt, pc, loc, reg, regBy, session, defaults,
                   made, reads>>

NextCopy ==
    \/ \E k \in SharedKeys, fault \in BOOLEAN : SetFrom(k, fault)
    \/ \E a \in Addrs \ {"v"}, k \in SharedKeys, fault \in BOOLEAN :
          GetInto(a, k, fault)
    \/ \E a \in Addrs, x \in ConcValues : Assign(a, x)

\* a caller that changes its value and its destinations between the calls
SpecCopy == Init /\ [][NextCopy]_vars

\* Calls with the Gets on each key counted.
CountedSet(k, v, fault) ==
    /\ SetStep(Background, k, v, fault)
    /\ reads' = IF last'.err = NoErr THEN [reads EXCEPT ![k] = 0] ELSE reads
    /\ UNCHANGED <<rt, pc, loc, reg, regBy, mem, session, defaults, made>>

CountedGet(k, d, fault) ==
    /\ GetStep(Background, k, d, fault)
    /\ reads' = [reads EXCEPT ![k] = IF @ < MaxReads THEN @ + 1 ELSE @]
    /\ UNCHANGED <<rt, pc, loc, reg, regBy, mem, session, defaults, made>>

CountedDelete(k, fault) ==
    /\ DeleteStep(Background, k, fault)
    /\ reads' = IF last'.err = NoErr THEN [reads EXCEPT ![k] = 0] ELSE reads
    /\ UNCHANGED <<rt, pc, loc, reg, regBy, mem, session, defaults, made>>

\* the destinations of the counted Gets: a new foo, a foo used before
ReadDests == {NewFoo, <<"foo", MaxVal, 1>>}

NextReads ==
    \/ \E k \in ValidKeys, v \in ConcValues, fault \in BOOLEAN :
          CountedSet(k, v, fault)
    \/ \E k \in ValidKeys, d \in ReadDests, fault \in BOOLEAN :
          CountedGet(k, d, fault)
    \/ \E k \in ValidKeys, fault \in BOOLEAN : CountedDelete(k, fault)

\* Sets, Deletes and runs of Gets on a few keys
SpecReads == Init /\ [][NextReads]_vars

\* a call of c.Close()
CallClose ==
    LET r == Close(coll, session)
    IN  /\ coll' = r.coll
        /\ session' = r.session
        /\ last' = [NoCall EXCEPT !.op = "Close", !.err = r.err, !.pre = coll]
        /\ UNCHANGED <<hist, rt, pc, loc, reg, regBy, mem, defaults, made,
                       reads>>

\* "You must call the Close() method on the client when you're done working
\* with it": Set, Get and Delete are called while the session is open
NextClose ==
    \/ \E k \in Keys, v \in Values :
          \E fault \in Faults(CheckKeyAndValue(k, v) = NoErr
                                /\ Marshal(v).err = NoErr) :
              session.open /\ Set(k, v, fault)
    \/ \E k \in Keys, d \in Dests :
          \E fault \in Faults(CheckKeyAndValue(k, d) = NoErr) :
              session.open /\ Get(k, d, fault)
    \/ \E k \in Keys :
          \E fault \in Faults(CheckKey(k) = NoErr) :
              session.open /\ Delete(k, fault)
    \/ CallClose

\* a caller that uses the client and closes it, once or again
SpecClose == Init /\ [][NextClose]_vars

\* callers that use the context variants, with any context
SpecContext == Init /\ [][NextContext]_vars

\* one caller after another constructs a client
SpecNew == Init /\ [][NextNew]_vars

\* a call of NewClient that has started goes on
SpecNewLive ==
    /\ SpecNew
    /\ WF_vars(NewClientDefaults)
    /\ WF_vars(\E ok \in BOOLEAN : NewClientDial(ok))
    /\ WF_vars(NewClientReturn)

\* ------------------------------------------------------- concurrent calls
\* Goroutines share one client.  Validation, marshalling and unmarshalling
\* work on the caller's own values; a method's one access to the shared
\* collection is its engine call, which MongoDB applies to the document
\* atomically.  A call is therefore three steps: it is called, it makes its
\* engine call (the step that applies the method), it returns.

\* a method and what it leaves and returns
Method(ctx, c, op, k, arg, fault) ==
    CASE op = "Set" ->
            LET r == SetWithContext(ctx, c, k, arg, fault)
            IN  [coll |-> r.coll, found |-> FALSE, err |-> r.err, out |-> arg]
      [] op = "Get" ->
            LET r == GetWithContext(ctx, c, k, arg, fault)
            IN  [coll |-> r.coll, found |-> r.found, err |-> r.err,
                 out |-> r.out]
      [] OTHER ->
            LET r == DeleteWithContext(ctx, c, k, fault)
            IN  [coll |-> r.coll, found |-> FALSE, err |-> r.err, out |-> arg]

\* caller p calls op(k, arg)
Invoke(p, op, k, arg) ==
    /\ pc[p] = "idle"
    /\ pc' = [pc EXCEPT ![p] = "called"]
    /\ loc' = [loc EXCEPT ![p] =
                 [@ EXCEPT !.op = op, !.k = k, !.arg = arg, !.out = arg,
                           !.expect = IF op = "Get" /\ reg[k][1] = "set"
                                         /\ regBy[k] = 0
                                      THEN <<"value", reg[k][2]>>
                                      ELSE <<"any", Nil>>]]
    /\ UNCHANGED <<coll, last, hist, rt, reg, regBy, env>>

\* caller p's call makes its engine call
Run(p, fault) ==
    /\ pc[p] = "called"
    /\ LET l == loc[p]
           r == Method(Background, coll, l.op, l.k, l.arg, fault)
           mutated == l.op \in {"Set", "Delete"} /\ r.err = NoErr
       IN  /\ coll' = r.coll
           /\ reg' = IF ~mutated THEN reg
                     ELSE IF l.op = "Set"
                     THEN [reg EXCEPT ![l.k] = <<"set", l.arg>>]
                     ELSE [reg EXCEPT ![l.k] = <<"absent", Nil>>]
           /\ regBy' = IF ~mutated THEN regBy
                       ELSE IF l.op = "Set" THEN [regBy EXCEPT ![l.k] = p]
                       ELSE [regBy EXCEPT ![l.k] = 0]
           /\ loc' = [q \in Callers |->
                        IF q = p
                        THEN [l EXCEPT !.fault = fault, !.found = r.found,
                                       !.err = r.err, !.out = r.out,
                                       !.read = reg[l.k]]
                        ELSE IF mutated /\ pc[q] = "called"
                                /\ loc[q].op = "Get" /\ loc[q].k = l.k
                        THEN [loc[q] EXCEPT !.expect = <<"any", Nil>>]
                        ELSE loc[q]]
    /\ pc' = [pc EXCEPT ![p] = "returning"]
    /\ UNCHANGED <<last, hist, rt, env>>

\* caller p's call returns; next is what p holds afterwards
Returns(p, next) ==
    /\ pc[p] = "returning"
    /\ pc' = [pc EXCEPT ![p] = "idle"]
    /\ loc' = [loc EXCEPT ![p] = next]
    /\ regBy' = IF loc[p].op = "Set" /\ loc[p].err = NoErr
                   /\ regBy[loc[p].k] = p
                THEN [regBy EXCEPT ![loc[p].k] = 0] ELSE regBy
    /\ UNCHANGED <<coll, last, hist, rt, reg, env>>

Return(p) == Returns(p, IdleLoc)

NextShared ==
    \/ \E p \in Callers, k \in SharedKeys, v \in ConcValues :
          Invoke(p, "Set", k, v)
    \/ \E p \in Callers, k \in SharedKeys : Invoke(p, "Get", k, NewFoo)
    \/ \E p \in Callers, k \in SharedKeys : Invoke(p, "Delete", k, Nil)
    \/ \E p \in Callers, fault \in BOOLEAN : Run(p, fault)
    \/ \E p \in Callers : Return(p)

\* any number of goroutines calling Set, Get and Delete on the same key
SpecShared == Init /\ [][NextShared]_vars

\* the goroutines that work on any keys: two of them, whose engine calls
\* fall in either order between each other's call and return
KeyCallers == {p \in Callers : p <= 2}

NextKeys ==
    \/ \E p \in KeyCallers, k \in ValidKeys, v \in ConcValues :
          Invoke(p, "Set", k, v)
    \/ \E p \in KeyCallers, k \in ValidKeys : Invoke(p, "Get", k, NewFoo)
    \/ \E p \in KeyCallers, k \in ValidKeys : Invoke(p, "Delete", k, Nil)
    \/ \E p \in KeyCallers, fault \in BOOLEAN : Run(p, fault)
    \/ \E p \in KeyCallers : Return(p)

\* goroutines calling Set, Get and Delete on any keys, the same or others
SpecKeys == Init /\ [][NextKeys]_vars

\* interactWithStore(store, key): Set(key, v), then Get(key, new(foo))
ReturnInteract(p) ==
    Returns(p, [IdleLoc EXCEPT
                  !.calls = loc[p].calls + 1,
                  !.want = IF loc[p].op # "Set" THEN loc[p].want
                           ELSE IF loc[p].err = NoErr
                           THEN <<"set", loc[p].arg>>
                           ELSE <<"failed", loc[p].arg>>])

Finished == \A p \in Callers : pc[p] = "idle" /\ loc[p].calls = 2

\* after waitGroup.Wait(): Get(strconv.Itoa(i), new(foo)) for every i
Verify(i, fault) == Finished /\ Get(KeyOf(i), NewFoo, fault)

NextDisjoint ==
    \/ \E p \in Callers, v \in ConcValues :
          loc[p].calls = 0 /\ Invoke(p, "Set", KeyOf(p), v)
    \/ \E p \in Callers :
          loc[p].calls = 1 /\ Invoke(p, "Get", KeyOf(p), NewFoo)
    \/ \E p \in Callers, fault \in BOOLEAN : Run(p, fault)
    \/ \E p \in Callers : ReturnInteract(p)
    \/ \E i \in Callers, fault \in BOOLEAN : Verify(i, fault)

\* the concurrency test: goroutine i sets and gets key i, then all are read
SpecDisjoint == Init /\ [][NextDisjoint]_vars

\* ------------------------------------------------------- codec round trip
\* toJSON then fromJSON, for every value v and every destination content d
InitCodec ==
    /\ coll = {}
    /\ last = NoCall
    /\ hist = [k \in Keys |-> <<"none", Nil>>]
    /\ rt \in {[NoRoundTrip EXCEPT !.step = "input", !.v = v, !.d = d] :
                 v \in CodecValues, d \in CodecValues}
    /\ pc = [p \in Callers |-> "idle"]
    /\ loc = [p \in Callers |-> IdleLoc]
    /\ reg = [k \in AllKeys |-> <<"absent", Nil>>]
    /\ regBy = [k \in AllKeys |-> 0]
    /\ mem = NewMem
    /\ session = OpenSession
    /\ defaults = DefaultOptions
    /\ made = NoClient
    /\ reads = [k \in Keys |-> 0]

RtMarshal ==
    /\ rt.step = "input"
    /\ rt' = [rt EXCEPT !.step = "marshalled", !.m = toJSON(rt.v)]
    /\ UNCHANGED <<coll, last, hist, pc, loc, reg, regBy, env>>

RtUnmarshal ==
    /\ rt.step = "marshalled"
    /\ rt.m.err = NoErr
    /\ rt' = [rt EXCEPT !.step = "done", !.u = fromJSON(rt.m.data, rt.d)]
    /\ UNCHANGED <<coll, last, hist, pc, loc, reg, regBy, env>>

NextCodec == RtMarshal \/ RtUnmarshal

SpecCodec == InitCodec /\ [][NextCodec]_vars

\* ------------------------------------------------------------------ claims
ValidationErrors == {ErrInvalidKey, ErrInvalidValue}

\* the last call was op, with a non-empty key
Called(op) == last.op = op /\ last.k \in ValidKeys

\* the last call was a Get(k, &out) that follows a Set(k, v) which returned
\* nil, with no Set or Delete on k after it, out being of v's type
GetAfterSet ==
    /\ Called("Get")
    /\ hist[last.k][1] = "Set"
    /\ TypeOf(last.arg) = TypeOf(hist[last.k][2])

GetAbsent ==
    /\ Called("Get")
    /\ last.arg # Nil
    /\ hist[last.k][1] \in {"none", "Delete"}

\* C2 (as stated): Get on a key never written, or deleted last, returns
\* (false, nil), never an error value.
C2_Absence == GetAbsent => ~last.found /\ last.err = NoErr

\* C2 (amended): such a Get returns found = false, with a nil error unless
\* the engine lookup itself fails, and then with the engine's error.
C2_AbsenceUnlessEngineFails ==
    GetAbsent =>
        /\ ~last.found
        /\ last.err = IF last.fault THEN ErrEngine ELSE NoErr

\* a Get that found nothing on a key that was set and then deleted
C2_Witness ==
    /\ GetAbsent /\ ~last.found /\ last.err = NoErr
    /\ hist[last.k][1] = "Delete"

\* Delete(k) once more, and Get(k, &out) for every out, in collection c
DeleteAgainIsNoOp(c, k) ==
    LET r == DeleteWithContext(Background, c, k, FALSE)
    IN  r.err = NoErr /\ r.coll = c

GetFindsNothing(c, k) ==
    \A d \in Dests \ {Nil} :
        LET g == GetWithContext(Background, c, k, d, FALSE)
        IN  ~g.found /\ g.err = NoErr

\* C3 (as stated): Delete(k) returns nil; on a key without entry it leaves
\* the store unchanged; after it Get(k) returns (false, nil) and a second
\* Delete(k) changes nothing and returns nil.
C3_DeleteIdempotent ==
    Called("Delete") =>
        /\ last.err = NoErr
        /\ ~HasId(last.pre, last.k) => coll = last.pre
        /\ GetFindsNothing(coll, last.k)
        /\ DeleteAgainIsNoOp(coll, last.k)

\* C3 (amended): when the engine's remove fails, Delete(k) returns the
\* engine's error and leaves the store unchanged; otherwise it returns nil,
\* removes the entry of k and nothing else, a following Get(k) whose lookup
\* does not fail returns (false, nil), and a second Delete(k) whose remove
\* does not fail returns nil and leaves the store as the first left it.
C3_DeleteIdempotentUnlessEngineFails ==
    Called("Delete") =>
        IF last.fault
        THEN last.err = ErrEngine /\ coll = last.pre
        ELSE /\ last.err = NoErr
             /\ coll = {d \in last.pre : d.K # last.k}
             /\ GetFindsNothing(coll, last.k)
             /\ DeleteAgainIsNoOp(coll, last.k)

\* a Delete that removed an entry and left another key's entry
C3_Witness ==
    /\ Called("Delete") /\ last.err = NoErr
    /\ HasId(last.pre, last.k)
    /\ coll # {}

\* C4: an empty key fails Set, Get and Delete with the invalid-key error, for
\* every value; Set(k, nil) with a non-empty key fails with the invalid-value
\* error; the validation error is returned as it is, and Get returns
\* found = false with it.
C4_Validation ==
    /\ last.op \in {"Set", "Get", "Delete"} /\ last.k = ""
         => last.err = ErrInvalidKey /\ ~last.found
    /\ last.op = "Set" /\ last.k # "" /\ last.arg = Nil
         => last.err = ErrInvalidValue
    /\ last.op \in {"Set", "Get"} /\ CheckKeyAndValue(last.k, last.arg) # NoErr
         => last.err = CheckKeyAndValue(last.k, last.arg) /\ ~last.found
    /\ last.op = "Delete" /\ CheckKey(last.k) # NoErr
         => last.err = CheckKey(last.k)

\* a Get with an empty key on a store that holds entries
C4_Witness ==
    /\ last.op = "Get" /\ last.k = "" /\ last.arg # Nil
    /\ last.err = ErrInvalidKey
    /\ coll # {}

\* C5: a call that returns a validation error has made no marshal call and
\* no engine call, and has left the stored entries as they were.
C5_ValidationFirst ==
    last.err \in ValidationErrors =>
        /\ coll = last.pre
        /\ last.trace \in {<<"CheckKeyAndValue">>, <<"CheckKey">>}

\* a Set(k, nil) refused on a key that holds an entry
C5_Witness ==
    /\ Called("Set") /\ last.arg = Nil
    /\ last.err = ErrInvalidValue
    /\ HasId(coll, last.k)

\* C8: a Get that returns found = false (absent key, validation failure or
\* engine failure) leaves the destination as it was; the destination is
\* written only when an entry was found.
C8_DestinationUntouched ==
    last.op = "Get" =>
        /\ ~last.found => last.out = last.arg
        /\ last.out # last.arg =>
               last.found /\ HasId(last.pre, last.k) /\ ~last.fault

\* a Get whose lookup failed on an existing entry, the destination not zero
C8_Witness ==
    /\ Called("Get") /\ ~last.found /\ last.err = ErrEngine
    /\ HasId(last.pre, last.k)
    /\ last.arg = <<"foo", MaxVal, 1>>
    /\ last.out = last.arg

\* the bytes cannot be unmarshalled into a destination holding d
Mismatch(data, d) ==
    \/ data[1] = "obj" /\ TypeOf(d) # "foo"
    \/ data[1] = "num" /\ TypeOf(d) # "int"

\* C9: Get returns (false, nil) only when the key has no entry; an entry
\* whose payload cannot be unmarshalled into the destination gives a non-nil
\* deserialization error, and a lookup that fails for another reason than
\* absence gives that non-nil error.
C9_ErrorsAreNotAbsence ==
    last.op = "Get" =>
        /\ ~last.found /\ last.err = NoErr
             => last.k # "" /\ ~HasId(last.pre, last.k)
        /\ \A d \in last.pre :
             d.K = last.k /\ last.arg # Nil /\ ~last.fault
                 /\ Mismatch(d.V, last.arg)
             => last.err = ErrUnmarshal
        /\ last.fault /\ CheckKeyAndValue(last.k, last.arg) = NoErr
             => last.err = ErrEngine /\ ~last.found

\* a Get of an entry written as a struct into an int destination
C9_Witness ==
    /\ Called("Get") /\ last.err = ErrUnmarshal
    /\ \E d \in last.pre : d.K = last.k /\ d.V[1] = "obj"
    /\ TypeOf(last.arg) = "int"

\* caller p is returning from the Get that followed its Set
OwnGet(p) == pc[p] = "returning" /\ loc[p].op = "Get"

\* the Get of key i made after all callers have finished
FinalGet(i) == Finished /\ last.op = "Get" /\ last.k = KeyOf(i)

Observes(want, d, fault, found, err, out) ==
    IF fault THEN ~found /\ err = ErrEngine /\ out = d
    ELSE IF want[1] = "set"
    THEN found /\ err = NoErr /\ out = <<want[2][1], want[2][2], d[3]>>
    ELSE ~found /\ err = NoErr /\ out = d

RegMatches ==
    \A k \in AllKeys :
        IF reg[k][1] = "set"
        THEN {d \in coll : d.K = k} = {[K |-> k, V |-> <<"obj", reg[k][2][2]>>]}
        ELSE ~HasId(coll, k)

\* caller p is returning from a call of op
Returning(p, op) == pc[p] = "returning" /\ loc[p].op = op

RoundTripped ==
    /\ rt.step = "done"
    /\ rt.v # Nil
    /\ rt.d = ZeroOf(rt.v)

C11_ContextIgnored ==
    last.op \in {"Set", "Get", "Delete"} =>
        LET plain == Method(Background, last.pre, last.op, last.k, last.arg,
                            last.fault)
        IN  /\ coll = plain.coll
            /\ last.found = plain.found
            /\ last.err = plain.err
            /\ last.out = plain.out

\* a SetWithContext with a cancelled context that replaced an entry
C11_Witness ==
    /\ last.op = "Set" /\ last.ctx = "cancelled"
    /\ last.err = NoErr
    /\ HasId(last.pre, last.k)
    /\ coll # last.pre

\* C12: the store keeps the marshalled form of the value as it was when Set
\* was called: whatever the caller assigns afterwards to the variable it
\* passed to Set, or to a destination an earlier Get has filled, a Get whose
\* lookup does not fail returns (true, nil) with the exported field the value
\* had at the time of the Set (and the destination's unexported field).
C12_DefensiveCopy ==
    /\ \A d \in coll :
         hist[d.K][1] = "Set" /\ d.V = Marshal(hist[d.K][2]).data
    /\ Called("Get") /\ hist[last.k][1] = "Set" /\ ~last.fault =>
         /\ last.found /\ last.err = NoErr
         /\ last.out = <<"foo", hist[last.k][2][2], last.arg[3]>>

\* a Get into one destination returns the value as it was set, after the
\* caller has changed the variable it had passed to Set and the destination
\* another Get had filled
C12_Witness ==
    /\ Called("Get") /\ last.found /\ last.err = NoErr
    /\ last.out[2] = hist[last.k][2][2]
    /\ mem["v"].used = "changed" /\ mem["v"].val[2] # last.out[2]
    /\ \E a, b \in Addrs \ {"v"} :
         /\ a # b
         /\ mem[a].used = "changed" /\ mem[a].val[2] # last.out[2]
         /\ mem[b].used = "passed" /\ mem[b].val = last.out

\* the option NewClient works with when the caller passed x and the
\* documented default is dflt
Effective(x, empty, dflt) == IF x = empty THEN dflt ELSE x

\* C13: NewClient puts the documented default ("localhost", "gokv", "item",
\* encoding.JSON) in place of each option the caller left empty, field by
\* field, keeps every other option as it was passed, dials, opens the
\* collection and takes the codec accordingly, and leaves the package
\* variable DefaultOptions as it is.
C13_Defaults ==
    LET g == made.given
        conn == Effective(g.ConnectionString, "", "localhost")
        db == Effective(g.DatabaseName, "", "gokv")
        name == Effective(g.CollectionName, "", "item")
        codec == Effective(g.Codec, "nil", "JSON")
    IN  /\ defaults = DefaultOptions
        /\ made.pc \in {"defaulted", "dialled", "returned"} =>
              made.options = [ConnectionString |-> conn, DatabaseName |-> db,
                              CollectionName |-> name, Codec |-> codec]
        /\ made.pc \in {"dialled", "returned"} => made.addr = conn
        /\ made.pc = "returned" /\ made.err = NoErr =>
              made.result = [c |-> <<conn, db, name>>, session |-> <<conn>>,
                             codec |-> codec]

\* a client made from options of which two were left empty
C13_Witness ==
    /\ made.pc = "returned" /\ made.err = NoErr
    /\ made.given = [ConnectionString |-> "mongo:27017", DatabaseName |-> "",
                     CollectionName |-> "things", Codec |-> "nil"]
    /\ made.result = [c |-> <<"mongo:27017", "gokv", "things">>,
                      session |-> <<"mongo:27017">>, codec |-> "JSON"]

\* a call of NewClient has returned a client that is ready, or the zero
\* client with the error of the dial
TwoOutcomes ==
    made.pc = "returned" =>
        \/ /\ made.err = NoErr
           /\ made.result.c # <<>> /\ made.result.session # <<>>
           /\ made.result.codec # "nil"
        \/ made.err = ErrDial /\ made.result = ZeroClient

\* C20: a call of NewClient returns, with a ready client (collection,
\* session and codec set) and a nil error, or with the zero client and the
\* error of the dial; it dials once and does not dial again.
C20_Terminates ==
    /\ []TwoOutcomes
    /\ [](made.dials <= 1)
    /\ [](made.pc \in {"dialled", "returned"} => made.dials = 1)
    /\ (made.pc = "called" ~> made.pc = "returned")

\* a call that returned the zero client after its only dial had failed
C20_Witness ==
    /\ made.pc = "returned" /\ made.err = ErrDial
    /\ made.result = ZeroClient
    /\ made.dials = 1
    /\ made.given.ConnectionString = "mongo:27017"

\* the documents stored under key k
Records(c, k) == {d \in c : d.K = k}

\* C14: in every reachable state the collection holds at most one document
\* per key; a document's K is a key that was set and its V is the codec's
\* output for the value of the last Set on that key that returned nil; a Set
\* on a key that has a document replaces it and adds no second one.
C14_Layout ==
    /\ \A k \in Keys : Cardinality(Records(coll, k)) <= 1
    /\ \A d \in coll :
         /\ d.K \in ValidKeys
         /\ hist[d.K][1] = "Set"
         /\ d.V = Marshal(hist[d.K][2]).data
    /\ Called("Set") /\ last.err = NoErr =>
         /\ Records(coll, last.k) = {[K |-> last.k, V |-> Marshal(last.arg).data]}
         /\ Cardinality(coll) = Cardinality(last.pre)
                                  + IF HasId(last.pre, last.k) THEN 0 ELSE 1

\* a Set that replaced the document of its key by one with another payload,
\* beside the document of another key
C14_Witness ==
    /\ Called("Set") /\ last.err = NoErr
    /\ HasId(last.pre, last.k)
    /\ Records(coll, last.k) # Records(last.pre, last.k)
    /\ Cardinality(coll) = 2

Mutates(k) ==
    \E p \in Callers :
        /\ pc[p] = "called" /\ pc'[p] = "returning"
        /\ loc[p].op \in {"Set", "Delete"}
        /\ loc[p].k = k

\* C16: Set(k, v) and Delete(k) change the entry of k only: in every step
\* of every execution, one caller at a time or several at once, the entry
\* of a key (its presence and its value, so what Get returns for it)
\* changes only by a Set or a Delete on that very key.
C16_KeyIndependence ==
    [][\A k \in AllKeys : Records(coll', k) # Records(coll, k) => Mutates(k)]_vars

\* a Delete has removed the entry of its key while a call on another key,
\* whose entry is still there, is in flight
C16_Witness ==
    \E p, q \in Callers :
        /\ Returning(p, "Delete") /\ loc[p].err = NoErr
        /\ loc[p].read[1] = "set"
        /\ ~HasId(coll, loc[p].k)
        /\ pc[q] = "called" /\ loc[q].k # loc[p].k
        /\ HasId(coll, loc[q].k)

\* Get(k, &out) returns the same in collections c1 and c2, for every
\* destination and whether or not the engine fails the lookup
SameGets(c1, c2, k) ==
    \A d \in Dests, fault \in BOOLEAN :
        LET g1 == GetWithContext(Background, c1, k, d, fault)
            g2 == GetWithContext(Background, c2, k, d, fault)
        IN  g1.found = g2.found /\ g1.err = g2.err /\ g1.out = g2.out

\* the last call was a Set whose value the codec cannot marshal
SetUnmarshallable ==
    /\ Called("Set")
    /\ last.arg # Nil
    /\ Marshal(last.arg).err # NoErr

\* C17: when marshalling the value fails, Set returns that error, makes no
\* upsert and leaves the store as it was: the key keeps its entry, or none,
\* and a Get(k) returns what it would have returned before the Set.
C17_FailedSetAtomic ==
    SetUnmarshallable =>
        /\ last.err = Marshal(last.arg).err
        /\ last.err # NoErr
        /\ last.trace = <<"CheckKeyAndValue", "Marshal">>
        /\ coll = last.pre
        /\ SameGets(coll, last.pre, last.k)

\* a Set of a channel on a key that holds an entry
C17_Witness ==
    /\ SetUnmarshallable
    /\ last.arg = ChanValue
    /\ last.err = ErrMarshal
    /\ HasId(coll, last.k)

\* what the engine's RemoveId returned in the last call, a Delete
Removed == RemoveId(last.pre, last.k, last.fault)

\* C18: Delete(k) with a valid key returns nil exactly when the engine
\* removed the entry or reported the key as not found, and returns the
\* engine's error as it is in every other case.
C18_DeleteErrors ==
    Called("Delete") =>
        /\ last.err = NoErr <=> Removed.err \in {NoErr, ErrNotFound}
        /\ Removed.err = NoErr => ~HasId(coll, last.k)
        /\ Removed.err \notin {NoErr, ErrNotFound} => last.err = Removed.err
        /\ coll = Removed.coll

\* a Delete of a key without entry, which the engine reported as not found,
\* in a store that holds another entry
C18_Witness ==
    /\ Called("Delete") /\ last.err = NoErr
    /\ Removed.err = ErrNotFound
    /\ coll # {}

\* C19: Close returns nil and leaves every stored entry as it was (none is
\* added, changed or removed), also when the client was closed before.
C19_CloseKeepsEntries ==
    last.op = "Close" =>
        /\ last.err = NoErr
        /\ coll = last.pre
        /\ ~session.open
        /\ \A d \in coll : d.V = Marshal(hist[d.K][2]).data

\* a second Close on a client whose store holds entries
C19_Witness ==
    /\ last.op = "Close" /\ last.err = NoErr
    /\ session.closes = 2
    /\ Cardinality(coll) = 2

====
